---- MODULE Spec2Model ----
(***************************************************************************)
(* The account ledger of the payments engine (src/domain/client_account.rs) *)
(* as a state machine.  One ClientAccount is driven by an arbitrary         *)
(* sequence of apply_transaction calls.  Monetary amounts are Decimals,     *)
(* modelled as integers counted in the smallest unit, in the range          *)
(* -DecimalMax .. DecimalMax (Decimal::MAX scaled down).                    *)
(***************************************************************************)
EXTENDS Integers, Sequences, FiniteSets, TLC

\* ---------------------------------------------------------------- bounds
\* Decimal::MAX, scaled down.
DecimalMax == 2
\* Largest transaction id (TransactionId = u32) the callers use.
MaxTransactionId == 2

\* Largest client id (ClientId = u16) in the input file.
MaxClientId == 2
\* Longest input file, in records.
MaxRecords == 4
\* Largest transaction id in the input file.
MaxRecordId == 1

TransactionIds == 0..MaxTransactionId
ClientIds == 1..MaxClientId
RecordIds == 0..MaxRecordId
Amounts == 0..DecimalMax

\* ---------------------------------------------------------------- Option / Result
None == <<>>
Some(v) == <<v>>

\* anyhow::Result<()>: Ok(()), Err(message), or a panic that unwinds.
OkUnit == [status |-> "Ok", cause |-> "", description |-> <<>>]
Err(cause) == [status |-> "Err", cause |-> cause, description |-> <<>>]
Panic == [status |-> "Panic", cause |-> "overflow", description |-> <<>>]
\* anyhow::Result<T>: Ok(value).
Ok(value) == [status |-> "Ok", value |-> value]

AccountLocked == "Account is locked"
BalanceOverflow == "Deposit would cause balance overflow"
InsufficientFunds == "Insufficient available balance for withdrawal"
HeldBalanceOverflow == "Dispute would cause held balance overflow"

\* ---------------------------------------------------------------- Decimal
InRange(v) == -DecimalMax <= v /\ v <= DecimalMax

\* checked_add with the upper limit excluded.
checked_add_strict(a, b) ==
    IF -DecimalMax <= a + b /\ a + b < DecimalMax THEN Some(a + b) ELSE None

\* Decimal::checked_add: None when the sum leaves the representable range.
checked_add(a, b) == IF InRange(a + b) THEN Some(a + b) ELSE None

\* ---------------------------------------------------------------- Transaction
DepositAction(amount) == [kind |-> "Deposit", amount |-> amount]
WithdrawalAction(amount) == [kind |-> "Withdrawal", amount |-> amount]
DisputeAction == [kind |-> "Dispute", amount |-> 0]
ResolveAction == [kind |-> "Resolve", amount |-> 0]
ChargebackAction == [kind |-> "Chargeback", amount |-> 0]

Transaction(client_id, transaction_id, action) ==
    [client_id |-> client_id, transaction_id |-> transaction_id,
     action |-> action]

\* Transaction::to_string: the text before the transaction id, per action.
KindText ==
    [Deposit |-> "deposit with transaction ID",
     Withdrawal |-> "withdrawal with transaction ID",
     Dispute |-> "dispute for transaction ID",
     Resolve |-> "resolve for transaction ID",
     Chargeback |-> "chargeback for transaction ID"]

to_string(transaction) ==
    <<KindText[transaction.action.kind], transaction.transaction_id>>

\* ---------------------------------------------------------------- HashMap
EmptyMap == <<>>
contains_key(map, key) == key \in DOMAIN map
insert(map, key, value) ==
    [k \in (DOMAIN map) \cup {key} |-> IF k = key THEN value ELSE map[k]]
remove(map, key) == [k \in (DOMAIN map) \ {key} |-> map[k]]

\* ---------------------------------------------------------------- ClientAccount
\* ClientAccount::new
ClientAccount_new(client_id) ==
    [client_id |-> client_id,
     available_balance |-> 0,
     held_balance |-> 0,
     total_balance |-> 0,
     locked |-> FALSE,
     last_transaction_id |-> None,
     applied_deposits |-> EmptyMap,
     disputed_deposits |-> EmptyMap,
     chargedback_deposits |-> EmptyMap]

\* What a call leaves behind: the account and the value it returned.
Ret(self, result) == [account |-> self, result |-> result]

\* is_transaction_in_order comparing with > : a duplicate id counts as in order.
is_transaction_in_order_strict(self, transaction_id) ==
    IF self.last_transaction_id # None
        THEN IF self.last_transaction_id[1] > transaction_id
                THEN FALSE
                ELSE TRUE
        ELSE TRUE

\* ClientAccount::is_transaction_in_order
is_transaction_in_order(self, transaction_id) ==
    IF self.last_transaction_id # None
        THEN IF self.last_transaction_id[1] >= transaction_id
                THEN FALSE
                ELSE TRUE
        ELSE TRUE

\* apply_deposit that does not advance last_transaction_id.
apply_deposit_no_highwater(self, transaction_id, deposit) ==
    IF ~is_transaction_in_order(self, transaction_id)
    THEN Ret(self, OkUnit)
    ELSE
      LET sum == checked_add(self.total_balance, deposit.amount) IN
      IF sum = None
      THEN Ret(self, Err(BalanceOverflow))
      ELSE Ret([self EXCEPT
                  !.total_balance = sum[1],
                  !.available_balance = @ + deposit.amount,
                  !.applied_deposits = insert(@, transaction_id, deposit.amount)],
               OkUnit)

\* apply_deposit that adds to total_balance only.
apply_deposit_total_only(self, transaction_id, deposit) ==
    IF ~is_transaction_in_order(self, transaction_id)
    THEN Ret(self, OkUnit)
    ELSE
      LET sum == checked_add(self.total_balance, deposit.amount) IN
      IF sum = None
      THEN Ret(self, Err(BalanceOverflow))
      ELSE Ret([self EXCEPT
                  !.total_balance = sum[1],
                  !.applied_deposits = insert(@, transaction_id, deposit.amount),
                  !.last_transaction_id = Some(transaction_id)],
               OkUnit)

\* apply_deposit guarding the available balance and adding to the total
\* unchecked.
apply_deposit_checks_available(self, transaction_id, deposit) ==
    IF ~is_transaction_in_order(self, transaction_id)
    THEN Ret(self, OkUnit)
    ELSE
      LET sum == checked_add(self.available_balance, deposit.amount) IN
      IF sum = None
      THEN Ret(self, Err(BalanceOverflow))
      ELSE
        LET s1 == [self EXCEPT !.available_balance = sum[1]] IN
        IF ~InRange(s1.total_balance + deposit.amount)
        THEN Ret(s1, Panic)
        ELSE Ret([s1 EXCEPT
                    !.total_balance = @ + deposit.amount,
                    !.applied_deposits = insert(@, transaction_id, deposit.amount),
                    !.last_transaction_id = Some(transaction_id)],
                 OkUnit)

\* apply_deposit recording the id before the overflow check.
apply_deposit_marks_rejected(self, transaction_id, deposit) ==
    IF ~is_transaction_in_order(self, transaction_id)
    THEN Ret(self, OkUnit)
    ELSE
      LET sum == checked_add(self.total_balance, deposit.amount)
          s0 == [self EXCEPT !.last_transaction_id = Some(transaction_id)] IN
      IF sum = None
      THEN Ret(s0, Err(BalanceOverflow))
      ELSE
        LET s1 == [s0 EXCEPT !.total_balance = sum[1]] IN
        IF ~InRange(s1.available_balance + deposit.amount)
        THEN Ret(s1, Panic)
        ELSE Ret([s1 EXCEPT
                    !.available_balance = @ + deposit.amount,
                    !.applied_deposits = insert(@, transaction_id, deposit.amount)],
                 OkUnit)

\* ClientAccount::apply_deposit
apply_deposit(self, transaction_id, deposit) ==
    IF ~is_transaction_in_order(self, transaction_id)
    THEN Ret(self, OkUnit)
    ELSE
      LET sum == checked_add(self.total_balance, deposit.amount) IN
      IF sum = None
      THEN Ret(self, Err(BalanceOverflow))
      ELSE
        LET s1 == [self EXCEPT !.total_balance = sum[1]] IN
        IF ~InRange(s1.available_balance + deposit.amount)
        THEN Ret(s1, Panic)
        ELSE Ret([s1 EXCEPT
                    !.available_balance = @ + deposit.amount,
                    !.applied_deposits = insert(@, transaction_id, deposit.amount),
                    !.last_transaction_id = Some(transaction_id)],
                 OkUnit)

\* apply_withdrawal that does not advance last_transaction_id.
apply_withdrawal_no_highwater(self, transaction_id, withdrawal) ==
    IF ~is_transaction_in_order(self, transaction_id)
    THEN Ret(self, OkUnit)
    ELSE IF withdrawal.amount > self.available_balance
    THEN Ret(self, Err(InsufficientFunds))
    ELSE Ret([self EXCEPT
                !.available_balance = @ - withdrawal.amount,
                !.total_balance = @ - withdrawal.amount],
             OkUnit)

\* apply_withdrawal that advances last_transaction_id before the funds check.
apply_withdrawal_marks_first(self, transaction_id, withdrawal) ==
    IF ~is_transaction_in_order(self, transaction_id)
    THEN Ret(self, OkUnit)
    ELSE
      LET s1 == [self EXCEPT !.last_transaction_id = Some(transaction_id)] IN
      IF withdrawal.amount > s1.available_balance
      THEN Ret(s1, Err(InsufficientFunds))
      ELSE Ret([s1 EXCEPT
                  !.available_balance = @ - withdrawal.amount,
                  !.total_balance = @ - withdrawal.amount],
               OkUnit)

\* apply_withdrawal that checks the amount against total_balance.
apply_withdrawal_checks_total(self, transaction_id, withdrawal) ==
    IF ~is_transaction_in_order(self, transaction_id)
    THEN Ret(self, OkUnit)
    ELSE IF withdrawal.amount > self.total_balance
    THEN Ret(self, Err(InsufficientFunds))
    ELSE Ret([self EXCEPT
                !.available_balance = @ - withdrawal.amount,
                !.total_balance = @ - withdrawal.amount,
                !.last_transaction_id = Some(transaction_id)],
             OkUnit)

\* apply_withdrawal without the funds check.
apply_withdrawal_no_funds_check(self, transaction_id, withdrawal) ==
    IF ~is_transaction_in_order(self, transaction_id)
    THEN Ret(self, OkUnit)
    ELSE IF ~InRange(self.available_balance - withdrawal.amount)
    THEN Ret(self, Panic)
    ELSE
      LET s1 == [self EXCEPT !.available_balance = @ - withdrawal.amount] IN
      IF ~InRange(s1.total_balance - withdrawal.amount)
      THEN Ret(s1, Panic)
      ELSE Ret([s1 EXCEPT
                  !.total_balance = @ - withdrawal.amount,
                  !.last_transaction_id = Some(transaction_id)],
               OkUnit)

\* ClientAccount::apply_withdrawal
apply_withdrawal(self, transaction_id, withdrawal) ==
    IF ~is_transaction_in_order(self, transaction_id)
    THEN Ret(self, OkUnit)
    ELSE IF withdrawal.amount > self.available_balance
    THEN Ret(self, Err(InsufficientFunds))
    ELSE IF ~InRange(self.available_balance - withdrawal.amount)
    THEN Ret(self, Panic)
    ELSE
      LET s1 == [self EXCEPT !.available_balance = @ - withdrawal.amount] IN
      IF ~InRange(s1.total_balance - withdrawal.amount)
      THEN Ret(s1, Panic)
      ELSE Ret([s1 EXCEPT
                  !.total_balance = @ - withdrawal.amount,
                  !.last_transaction_id = Some(transaction_id)],
               OkUnit)

\* apply_dispute that writes available_balance before the overflow check.
apply_dispute_early_write(self, transaction_id) ==
    IF contains_key(self.applied_deposits, transaction_id)
    THEN
      LET amount == self.applied_deposits[transaction_id]
          s1 == [self EXCEPT !.available_balance = @ - amount]
          held_balance == checked_add(self.held_balance, amount) IN
      IF held_balance = None
      THEN Ret(s1, Err(HeldBalanceOverflow))
      ELSE Ret([s1 EXCEPT
                  !.held_balance = held_balance[1],
                  !.disputed_deposits = insert(@, transaction_id, amount),
                  !.applied_deposits = remove(@, transaction_id)],
               OkUnit)
    ELSE Ret(self, OkUnit)

\* apply_dispute that refuses a deposit whose funds are no longer available.
apply_dispute_requires_funds(self, transaction_id) ==
    IF contains_key(self.applied_deposits, transaction_id)
    THEN
      LET amount == self.applied_deposits[transaction_id]
          held_balance == checked_add(self.held_balance, amount) IN
      IF held_balance = None
      THEN Ret(self, Err(HeldBalanceOverflow))
      ELSE IF amount > self.available_balance
      THEN Ret(self, Err(InsufficientFunds))
      ELSE Ret([self EXCEPT
                  !.available_balance = @ - amount,
                  !.held_balance = held_balance[1],
                  !.disputed_deposits = insert(@, transaction_id, amount),
                  !.applied_deposits = remove(@, transaction_id)],
               OkUnit)
    ELSE Ret(self, OkUnit)

\* apply_dispute that adds to held_balance without the overflow check.
apply_dispute_unchecked_held(self, transaction_id) ==
    IF contains_key(self.applied_deposits, transaction_id)
    THEN
      LET amount == self.applied_deposits[transaction_id] IN
      Ret([self EXCEPT
             !.available_balance = @ - amount,
             !.held_balance = @ + amount,
             !.disputed_deposits = insert(@, transaction_id, amount),
             !.applied_deposits = remove(@, transaction_id)],
          OkUnit)
    ELSE Ret(self, OkUnit)

\* apply_dispute that first checks the id against last_transaction_id, as
\* apply_deposit does.
apply_dispute_checks_order(self, transaction_id) ==
    IF ~is_transaction_in_order(self, transaction_id)
    THEN Ret(self, OkUnit)
    ELSE IF contains_key(self.applied_deposits, transaction_id)
    THEN
      LET amount == self.applied_deposits[transaction_id]
          held_balance == checked_add(self.held_balance, amount) IN
      IF held_balance = None
      THEN Ret(self, Err(HeldBalanceOverflow))
      ELSE Ret([self EXCEPT
                  !.available_balance = @ - amount,
                  !.held_balance = held_balance[1],
                  !.disputed_deposits = insert(@, transaction_id, amount),
                  !.applied_deposits = remove(@, transaction_id)],
               OkUnit)
    ELSE Ret(self, OkUnit)

\* ClientAccount::apply_dispute
apply_dispute(self, transaction_id) ==
    IF contains_key(self.applied_deposits, transaction_id)
    THEN
      LET amount == self.applied_deposits[transaction_id]
          held_balance == checked_add(self.held_balance, amount) IN
      IF held_balance = None
      THEN Ret(self, Err(HeldBalanceOverflow))
      ELSE IF ~InRange(self.available_balance - amount)
      THEN Ret(self, Panic)
      ELSE Ret([self EXCEPT
                  !.available_balance = @ - amount,
                  !.held_balance = held_balance[1],
                  !.disputed_deposits = insert(@, transaction_id, amount),
                  !.applied_deposits = remove(@, transaction_id)],
               OkUnit)
    ELSE Ret(self, OkUnit)

\* apply_resolve that leaves held_balance alone.
apply_resolve_keeps_held(self, transaction_id) ==
    IF contains_key(self.disputed_deposits, transaction_id)
    THEN
      LET amount == self.disputed_deposits[transaction_id] IN
      Ret([self EXCEPT
             !.available_balance = @ + amount,
             !.applied_deposits = insert(@, transaction_id, amount),
             !.disputed_deposits = remove(@, transaction_id)],
          OkUnit)
    ELSE Ret(self, OkUnit)

\* apply_resolve that copies the entry instead of moving it.
apply_resolve_keeps_entry(self, transaction_id) ==
    IF contains_key(self.disputed_deposits, transaction_id)
    THEN
      LET amount == self.disputed_deposits[transaction_id] IN
      Ret([self EXCEPT
             !.available_balance = @ + amount,
             !.held_balance = @ - amount,
             !.applied_deposits = insert(@, transaction_id, amount)],
          OkUnit)
    ELSE Ret(self, OkUnit)

\* apply_resolve that reports a missing entry as an error.
apply_resolve_errors_on_missing(self, transaction_id) ==
    IF contains_key(self.disputed_deposits, transaction_id)
    THEN
      LET amount == self.disputed_deposits[transaction_id] IN
      Ret([self EXCEPT
             !.available_balance = @ + amount,
             !.held_balance = @ - amount,
             !.applied_deposits = insert(@, transaction_id, amount),
             !.disputed_deposits = remove(@, transaction_id)],
          OkUnit)
    ELSE Ret(self, Err("Transaction is not disputed"))

\* apply_resolve looking the id up in applied_deposits.
apply_resolve_from_applied(self, transaction_id) ==
    IF contains_key(self.applied_deposits, transaction_id)
    THEN
      LET amount == self.applied_deposits[transaction_id] IN
      IF ~InRange(self.available_balance + amount)
      THEN Ret(self, Panic)
      ELSE
        LET s1 == [self EXCEPT !.available_balance = @ + amount] IN
        IF ~InRange(s1.held_balance - amount)
        THEN Ret(s1, Panic)
        ELSE Ret([s1 EXCEPT !.held_balance = @ - amount], OkUnit)
    ELSE Ret(self, OkUnit)

\* apply_resolve that removes the entry and does not put it back.
apply_resolve_drops_entry(self, transaction_id) ==
    IF contains_key(self.disputed_deposits, transaction_id)
    THEN
      LET amount == self.disputed_deposits[transaction_id] IN
      IF ~InRange(self.available_balance + amount)
      THEN Ret(self, Panic)
      ELSE
        LET s1 == [self EXCEPT !.available_balance = @ + amount] IN
        IF ~InRange(s1.held_balance - amount)
        THEN Ret(s1, Panic)
        ELSE Ret([s1 EXCEPT
                    !.held_balance = @ - amount,
                    !.disputed_deposits = remove(@, transaction_id)],
                 OkUnit)
    ELSE Ret(self, OkUnit)

\* ClientAccount::apply_resolve
apply_resolve(self, transaction_id) ==
    IF contains_key(self.disputed_deposits, transaction_id)
    THEN
      LET amount == self.disputed_deposits[transaction_id] IN
      IF ~InRange(self.available_balance + amount)
      THEN Ret(self, Panic)
      ELSE
        LET s1 == [self EXCEPT !.available_balance = @ + amount] IN
        IF ~InRange(s1.held_balance - amount)
        THEN Ret(s1, Panic)
        ELSE Ret([s1 EXCEPT
                    !.held_balance = @ - amount,
                    !.applied_deposits = insert(@, transaction_id, amount),
                    !.disputed_deposits = remove(@, transaction_id)],
                 OkUnit)
    ELSE Ret(self, OkUnit)

\* apply_chargeback that leaves total_balance alone.
apply_chargeback_keeps_total(self, transaction_id) ==
    IF contains_key(self.disputed_deposits, transaction_id)
    THEN
      LET amount == self.disputed_deposits[transaction_id] IN
      Ret([self EXCEPT
             !.held_balance = @ - amount,
             !.chargedback_deposits = insert(@, transaction_id, amount),
             !.disputed_deposits = remove(@, transaction_id),
             !.locked = TRUE],
          OkUnit)
    ELSE Ret(self, OkUnit)

\* apply_chargeback that locks the account also when the entry is missing.
apply_chargeback_always_locks(self, transaction_id) ==
    IF contains_key(self.disputed_deposits, transaction_id)
    THEN
      LET amount == self.disputed_deposits[transaction_id] IN
      Ret([self EXCEPT
             !.held_balance = @ - amount,
             !.total_balance = @ - amount,
             !.chargedback_deposits = insert(@, transaction_id, amount),
             !.disputed_deposits = remove(@, transaction_id),
             !.locked = TRUE],
          OkUnit)
    ELSE Ret([self EXCEPT !.locked = TRUE], OkUnit)

\* apply_chargeback that does not lock the account.
apply_chargeback_no_lock(self, transaction_id) ==
    IF contains_key(self.disputed_deposits, transaction_id)
    THEN
      LET amount == self.disputed_deposits[transaction_id] IN
      Ret([self EXCEPT
             !.held_balance = @ - amount,
             !.total_balance = @ - amount,
             !.chargedback_deposits = insert(@, transaction_id, amount),
             !.disputed_deposits = remove(@, transaction_id)],
          OkUnit)
    ELSE Ret(self, OkUnit)

\* apply_chargeback that looks the deposit up in applied_deposits.
apply_chargeback_from_applied(self, transaction_id) ==
    IF contains_key(self.applied_deposits, transaction_id)
    THEN
      LET amount == self.applied_deposits[transaction_id] IN
      Ret([self EXCEPT
             !.available_balance = @ - amount,
             !.total_balance = @ - amount,
             !.chargedback_deposits = insert(@, transaction_id, amount),
             !.applied_deposits = remove(@, transaction_id),
             !.locked = TRUE],
          OkUnit)
    ELSE Ret(self, OkUnit)

\* apply_chargeback that leaves held_balance alone.
apply_chargeback_keeps_held(self, transaction_id) ==
    IF contains_key(self.disputed_deposits, transaction_id)
    THEN
      LET amount == self.disputed_deposits[transaction_id] IN
      IF ~InRange(self.total_balance - amount)
      THEN Ret(self, Panic)
      ELSE Ret([self EXCEPT
                  !.total_balance = @ - amount,
                  !.chargedback_deposits = insert(@, transaction_id, amount),
                  !.disputed_deposits = remove(@, transaction_id),
                  !.locked = TRUE],
               OkUnit)
    ELSE Ret(self, OkUnit)

\* ClientAccount::apply_chargeback
apply_chargeback(self, transaction_id) ==
    IF contains_key(self.disputed_deposits, transaction_id)
    THEN
      LET amount == self.disputed_deposits[transaction_id] IN
      IF ~InRange(self.held_balance - amount)
      THEN Ret(self, Panic)
      ELSE
        LET s1 == [self EXCEPT !.held_balance = @ - amount] IN
        IF ~InRange(s1.total_balance - amount)
        THEN Ret(s1, Panic)
        ELSE Ret([s1 EXCEPT
                    !.total_balance = @ - amount,
                    !.chargedback_deposits = insert(@, transaction_id, amount),
                    !.disputed_deposits = remove(@, transaction_id),
                    !.locked = TRUE],
                 OkUnit)
    ELSE Ret(self, OkUnit)

\* The map_err of apply_transaction: an error is prefixed with the
\* description of the transaction; Ok and a panic pass through.
map_err(ret, transaction_description) ==
    IF ret.result.status = "Err"
    THEN Ret(ret.account,
             [ret.result EXCEPT !.description = transaction_description])
    ELSE ret

\* apply_transaction without the locked check.
apply_transaction_ignores_lock(self, transaction) ==
    LET transaction_id == transaction.transaction_id
        transaction_description == to_string(transaction) IN
    map_err(
      CASE transaction.action.kind = "Deposit" ->
              apply_deposit(self, transaction_id, transaction.action)
        [] transaction.action.kind = "Withdrawal" ->
              apply_withdrawal(self, transaction_id, transaction.action)
        [] transaction.action.kind = "Dispute" ->
              apply_dispute(self, transaction_id)
        [] transaction.action.kind = "Resolve" ->
              apply_resolve(self, transaction_id)
        [] transaction.action.kind = "Chargeback" ->
              apply_chargeback(self, transaction_id),
      transaction_description)

\* apply_transaction letting a Chargeback through on a locked account.
apply_transaction_chargeback_when_locked(self, transaction) ==
    LET transaction_id == transaction.transaction_id
        transaction_description == to_string(transaction) IN
    IF self.locked /\ transaction.action.kind # "Chargeback"
    THEN Ret(self, [Err(AccountLocked) EXCEPT
                      !.description = transaction_description])
    ELSE map_err(
           CASE transaction.action.kind = "Deposit" ->
                   apply_deposit(self, transaction_id, transaction.action)
             [] transaction.action.kind = "Withdrawal" ->
                   apply_withdrawal(self, transaction_id, transaction.action)
             [] transaction.action.kind = "Dispute" ->
                   apply_dispute(self, transaction_id)
             [] transaction.action.kind = "Resolve" ->
                   apply_resolve(self, transaction_id)
             [] transaction.action.kind = "Chargeback" ->
                   apply_chargeback(self, transaction_id),
           transaction_description)

\* ClientAccount::apply_transaction
apply_transaction(self, transaction) ==
    LET transaction_id == transaction.transaction_id
        transaction_description == to_string(transaction) IN
    IF self.locked
    THEN Ret(self, [Err(AccountLocked) EXCEPT
                      !.description = transaction_description])
    ELSE map_err(
           CASE transaction.action.kind = "Deposit" ->
                   apply_deposit(self, transaction_id, transaction.action)
             [] transaction.action.kind = "Withdrawal" ->
                   apply_withdrawal(self, transaction_id, transaction.action)
             [] transaction.action.kind = "Dispute" ->
                   apply_dispute(self, transaction_id)
             [] transaction.action.kind = "Resolve" ->
                   apply_resolve(self, transaction_id)
             [] transaction.action.kind = "Chargeback" ->
                   apply_chargeback(self, transaction_id),
           transaction_description)

\* ---------------------------------------------------------------- state
VARIABLES
    account,        \* the ClientAccount
    result,         \* what the latest apply_transaction call returned
    applications,   \* per transaction id: how many Deposit/Withdrawal calls
                    \* carrying it have changed the balances (history)
    deposited,      \* the Deposits that were applied, id |-> amount (history)
    pc,             \* "running", or "panicked" once a call has unwound
    client_accounts,    \* process_csv: the HashMap<ClientId, ClientAccount>
    clients_seen,       \* process_csv: client ids of the transactions read
                        \* so far (history)
    records_read,       \* process_csv: how many records the reader has given
    returned            \* process_csv: None inside the loop, then Some(value
                        \* returned)

history == <<applications, deposited>>
ledger == <<account, result, applications, deposited, pc>>
driver == <<client_accounts, clients_seen, records_read, returned>>
vars == <<account, result, applications, deposited, pc,
          client_accounts, clients_seen, records_read, returned>>

Balances(self) ==
    <<self.available_balance, self.held_balance, self.total_balance>>

Init ==
    /\ account = ClientAccount_new(1)
    /\ result = OkUnit
    /\ applications = [id \in TransactionIds |-> 0]
    /\ deposited = EmptyMap
    /\ pc = "running"
    /\ client_accounts = EmptyMap
    /\ clients_seen = {}
    /\ records_read = 0
    /\ returned = None

\* One call of apply_transaction by the owner of the account.
Apply(transaction) ==
    /\ pc = "running"
    /\ LET ret == apply_transaction(account, transaction) IN
         /\ account' = ret.account
         /\ result' = ret.result
         /\ pc' = IF ret.result.status = "Panic" THEN "panicked" ELSE "running"
    /\ UNCHANGED driver

Deposit ==
    \E transaction_id \in TransactionIds, amount \in Amounts :
        /\ Apply(Transaction(account.client_id, transaction_id, DepositAction(amount)))
        /\ UNCHANGED history

Withdrawal ==
    \E transaction_id \in TransactionIds, amount \in Amounts :
        /\ Apply(Transaction(account.client_id, transaction_id, WithdrawalAction(amount)))
        /\ UNCHANGED history

Dispute ==
    \E transaction_id \in TransactionIds :
        /\ Apply(Transaction(account.client_id, transaction_id, DisputeAction))
        /\ UNCHANGED history

Resolve ==
    \E transaction_id \in TransactionIds :
        /\ Apply(Transaction(account.client_id, transaction_id, ResolveAction))
        /\ UNCHANGED history

Chargeback ==
    \E transaction_id \in TransactionIds :
        /\ Apply(Transaction(account.client_id, transaction_id, ChargebackAction))
        /\ UNCHANGED history

Next == Deposit \/ Withdrawal \/ Dispute \/ Resolve \/ Chargeback

Spec == Init /\ [][Next]_vars

\* ---------------------------------------------------------------- history
InOrder(transaction_id) == is_transaction_in_order(account, transaction_id)

\* The same calls, with the Deposit and Withdrawal calls that changed a
\* balance counted per transaction id.
Record(transaction_id) ==
    applications' =
        IF /\ Balances(account') # Balances(account)
           /\ applications[transaction_id] < 2
        THEN [applications EXCEPT ![transaction_id] = @ + 1]
        ELSE applications

\* A Deposit was applied when it was in order and the call returned Ok: it
\* was neither dropped nor rejected.
RecordApplied(transaction_id, amount) ==
    deposited' =
        IF InOrder(transaction_id) /\ result'.status = "Ok"
        THEN insert(deposited, transaction_id, amount)
        ELSE deposited

RecordedDeposit ==
    \E transaction_id \in TransactionIds, amount \in Amounts :
        /\ Apply(Transaction(account.client_id, transaction_id, DepositAction(amount)))
        /\ Record(transaction_id)
        /\ RecordApplied(transaction_id, amount)

RecordedWithdrawal ==
    \E transaction_id \in TransactionIds, amount \in Amounts :
        /\ Apply(Transaction(account.client_id, transaction_id, WithdrawalAction(amount)))
        /\ Record(transaction_id)
        /\ UNCHANGED deposited

NextHistory ==
    RecordedDeposit \/ RecordedWithdrawal \/ Dispute \/ Resolve \/ Chargeback

SpecHistory == Init /\ [][NextHistory]_vars

\* ---------------------------------------------------------------- properties
\* The transactions a caller can hand to apply_transaction.
Deposits ==
    {Transaction(account.client_id, id, DepositAction(amount)) :
        id \in TransactionIds, amount \in Amounts}
Withdrawals ==
    {Transaction(account.client_id, id, WithdrawalAction(amount)) :
        id \in TransactionIds, amount \in Amounts}
Unlocked == ~account.locked

\* The latest call was rejected with this cause / was of this kind.
Rejected(cause) == result.status = "Err" /\ result.cause = cause
RejectedKind(kind) == result.status = "Err" /\ result.description[1] = KindText[kind]
RejectedId == result.description[2]

\* The error apply_transaction returns for a transaction.
ErrorOf(transaction, cause) ==
    [Err(cause) EXCEPT !.description = to_string(transaction)]

StoredIds(self) ==
    (DOMAIN self.applied_deposits) \cup (DOMAIN self.disputed_deposits)
      \cup (DOMAIN self.chargedback_deposits)

\* C1: in every reachable state total_balance = available_balance +
\* held_balance.
C1_TotalIsAvailablePlusHeld ==
    account.total_balance = account.available_balance + account.held_balance

\* A locked account after a chargeback whose funds had been withdrawn.
C1_Witness ==
    /\ account.locked
    /\ account.available_balance < 0
    /\ DOMAIN account.chargedback_deposits # {}

\* C2: once locked, the account stays locked: every call, of every kind and
\* with every id, leaves every field unchanged and returns the AccountLocked
\* error.
C2_LockedIsFrozen ==
    [][account.locked =>
         /\ account' = account
         /\ result'.status = "Err"
         /\ result'.cause = AccountLocked]_vars

\* A locked account has refused a Deposit whose id is above the highwater
\* mark.
C2_Witness ==
    /\ account.locked
    /\ Rejected(AccountLocked)
    /\ RejectedKind("Deposit")
    /\ InOrder(RejectedId)

\* C3: a call that returns an error leaves the account as it was.
C3_FailureAtomicity ==
    [][result'.status = "Err" => account' = account]_vars

\* A Dispute of an applied deposit was refused with HeldBalanceOverflow.
C3_Witness ==
    /\ Rejected(HeldBalanceOverflow)
    /\ RejectedKind("Dispute")
    /\ contains_key(account.applied_deposits, RejectedId)

\* C4: on an unlocked account a Deposit or Withdrawal whose id is not above
\* last_transaction_id returns Ok and changes no field, whatever its amount.
C4_OutOfOrderIsDropped ==
    Unlocked =>
      \A t \in Deposits \cup Withdrawals :
         (/\ account.last_transaction_id # None
          /\ t.transaction_id <= account.last_transaction_id[1])
         => apply_transaction(account, t) = Ret(account, OkUnit)

\* An unlocked account with funds, whose highwater mark has passed an id that
\* was never applied: a Deposit of that id with the maximal amount would
\* overflow the total, and is dropped.
C4_Witness ==
    /\ Unlocked
    /\ account.total_balance > 0
    /\ account.last_transaction_id # None
    /\ \E id \in TransactionIds :
          /\ id < account.last_transaction_id[1]
          /\ id \notin StoredIds(account)

\* C5: for each transaction id at most one Deposit-or-Withdrawal call changes
\* the balances, and replaying a transaction id that has been applied changes
\* nothing.
C5_AtMostOnce ==
    /\ \A id \in TransactionIds : applications[id] <= 1
    /\ \A t \in Deposits \cup Withdrawals :
          applications[t.transaction_id] >= 1
          => apply_transaction(account, t).account = account

\* A Deposit and a later Withdrawal have both been applied, and the funds
\* would cover the Withdrawal again.
C5_Witness ==
    /\ Unlocked
    /\ Cardinality({id \in TransactionIds : applications[id] = 1}) >= 2
    /\ account.available_balance > 0
    /\ account.last_transaction_id # None
    /\ applications[account.last_transaction_id[1]] = 1
    /\ account.last_transaction_id[1] \notin StoredIds(account)

\* C6: from every reachable state and for every Deposit or Withdrawal t,
\* applying t twice in a row leaves the three balances as applying t once
\* leaves them.
C6_Idempotence ==
    \A t \in Deposits \cup Withdrawals :
       LET once == apply_transaction(account, t)
           twice == apply_transaction(once.account, t) IN
       Balances(twice.account) = Balances(once.account)

\* A state from which a Withdrawal changes the balances and leaves funds that
\* would cover it a second time.
C6_Witness ==
    \E t \in Withdrawals :
       LET once == apply_transaction(account, t) IN
       /\ t.action.amount > 0
       /\ once.result = OkUnit
       /\ Balances(once.account) # Balances(account)
       /\ once.account.available_balance >= t.action.amount

\* C7 as claimed: re-invoking apply_transaction with a Deposit or Withdrawal
\* that has just been attempted returns Ok as a no-op, whether the attempt
\* succeeded or was rejected.
C7_RetryReturnsOk ==
    \A t \in Deposits \cup Withdrawals :
       LET attempt == apply_transaction(account, t)
           retry == apply_transaction(attempt.account, t) IN
       retry = Ret(attempt.account, OkUnit)

\* C7 amended: re-invoking apply_transaction with a Deposit or Withdrawal
\* that has just been attempted changes no field and returns what the attempt
\* returned: Ok when it succeeded, the same error when it was rejected.
C7_RetryRepeatsResult ==
    \A t \in Deposits \cup Withdrawals :
       LET attempt == apply_transaction(account, t)
           retry == apply_transaction(attempt.account, t) IN
       retry = Ret(attempt.account, attempt.result)

\* A Withdrawal has been rejected for insufficient funds while other funds
\* are held; its id is still above the highwater mark.
C7_Witness ==
    /\ Rejected(InsufficientFunds)
    /\ RejectedKind("Withdrawal")
    /\ InOrder(RejectedId)
    /\ account.held_balance > 0

\* C8: a successful in-order Deposit on an unlocked account adds the amount to
\* available_balance and total_balance, records the deposit in
\* applied_deposits, sets last_transaction_id and changes nothing else.
C8_DepositEffect ==
    \A t \in Deposits :
       LET id == t.transaction_id
           amount == t.action.amount
           ret == apply_transaction(account, t)
           after == ret.account IN
       (Unlocked /\ InOrder(id) /\ ret.result = OkUnit) =>
          /\ after.available_balance = account.available_balance + amount
          /\ after.total_balance = account.total_balance + amount
          /\ after.held_balance = account.held_balance
          /\ DOMAIN after.applied_deposits =
                (DOMAIN account.applied_deposits) \cup {id}
          /\ after.applied_deposits[id] = amount
          /\ \A k \in DOMAIN account.applied_deposits :
                k # id => after.applied_deposits[k] = account.applied_deposits[k]
          /\ after.last_transaction_id = Some(id)
          /\ after.disputed_deposits = account.disputed_deposits
          /\ after.chargedback_deposits = account.chargedback_deposits
          /\ after.locked = account.locked

\* The deposit at the highwater mark is applied with a positive amount while
\* another deposit is under dispute.
C8_Witness ==
    /\ Unlocked
    /\ result = OkUnit
    /\ account.last_transaction_id # None
    /\ contains_key(account.applied_deposits, account.last_transaction_id[1])
    /\ account.applied_deposits[account.last_transaction_id[1]] > 0
    /\ account.held_balance > 0

\* C9: an in-order Deposit on an unlocked account fails with BalanceOverflow
\* exactly when total_balance + amount exceeds the maximum, and then changes
\* no field.
C9_OverflowGuard ==
    \A t \in Deposits :
       LET ret == apply_transaction(account, t) IN
       (Unlocked /\ InOrder(t.transaction_id)) =>
          /\ ret.result = ErrorOf(t, BalanceOverflow)
               <=> account.total_balance + t.action.amount > DecimalMax
          /\ ret.result # OkUnit =>
               ret = Ret(account, ErrorOf(t, BalanceOverflow))

\* A Deposit was refused with BalanceOverflow on an account that holds an
\* earlier deposit and is not yet at the maximum.
C9_Witness ==
    /\ Rejected(BalanceOverflow)
    /\ RejectedKind("Deposit")
    /\ InOrder(RejectedId)
    /\ account.total_balance > 0
    /\ account.total_balance < DecimalMax
    /\ DOMAIN account.applied_deposits # {}

\* C10: an in-order Withdrawal on an unlocked account fails with
\* InsufficientFunds and changes nothing when amount > available_balance;
\* otherwise it subtracts the amount from available_balance and
\* total_balance, sets last_transaction_id and changes nothing else.  No
\* Withdrawal makes available_balance negative.
C10_WithdrawalEffect ==
    \A t \in Withdrawals :
       LET id == t.transaction_id
           amount == t.action.amount
           ret == apply_transaction(account, t) IN
       /\ \/ ret.account.available_balance >= 0
          \/ ret.account.available_balance = account.available_balance
       /\ (Unlocked /\ InOrder(id)) =>
            IF amount > account.available_balance
            THEN ret = Ret(account, ErrorOf(t, InsufficientFunds))
            ELSE ret = Ret([account EXCEPT
                              !.available_balance = account.available_balance - amount,
                              !.total_balance = account.total_balance - amount,
                              !.last_transaction_id = Some(id)],
                           OkUnit)

\* The latest applied transaction was a Withdrawal that emptied the available
\* balance while another deposit is held under dispute.
C10_Witness ==
    /\ Unlocked
    /\ result = OkUnit
    /\ account.last_transaction_id # None
    /\ account.last_transaction_id[1] \notin StoredIds(account)
    /\ account.available_balance = 0
    /\ account.held_balance > 0
    /\ DOMAIN account.applied_deposits # {}

\* ---------------------------------------------------------------- csv
\* The amount column of a row: empty, zero or positive.
RecordAmounts == {None, Some(0), Some(1)}

\* The rows the reader gives: after trimming, a type, a client id, a
\* transaction id and an amount; or a row that does not deserialize (a field
\* is missing).
StringRecords ==
    {<<type, client_id, transaction_id, amount>> :
        type \in {"deposit", "withdrawal"},
        client_id \in ClientIds,
        transaction_id \in RecordIds,
        amount \in RecordAmounts}
      \cup {<<type, client_id, transaction_id, None>> :
              type \in {"dispute", "resolve", "chargeback", "transfer"},
              client_id \in ClientIds,
              transaction_id \in RecordIds}
      \cup {<<"deposit">>}

\* CsvTransaction::from_string_record
from_string_record(record) ==
    IF Len(record) = 4
    THEN Ok([transaction_type |-> record[1],
             client_id |-> record[2],
             transaction_id |-> record[3],
             amount |-> record[4]])
    ELSE Err("Failed to deserialize CSV transaction")

\* CsvTransaction::assert_positive_amount
assert_positive_amount(self) ==
    IF self.amount = None THEN Err("Amount is missing")
    ELSE IF self.amount[1] > 0 THEN Ok(self.amount[1])
    ELSE Err("Amount is negative or zero")

\* CsvTransaction::to_deposit
to_deposit(self) ==
    LET amount == assert_positive_amount(self) IN
    IF amount.status = "Err" THEN amount
    ELSE Ok(Transaction(self.client_id, self.transaction_id,
                        DepositAction(amount.value)))

\* CsvTransaction::to_withdrawal
to_withdrawal(self) ==
    LET amount == assert_positive_amount(self) IN
    IF amount.status = "Err" THEN amount
    ELSE Ok(Transaction(self.client_id, self.transaction_id,
                        WithdrawalAction(amount.value)))

\* CsvTransaction::to_dispute
to_dispute(self) ==
    Ok(Transaction(self.client_id, self.transaction_id, DisputeAction))

\* CsvTransaction::to_resolve
to_resolve(self) ==
    Ok(Transaction(self.client_id, self.transaction_id, ResolveAction))

\* CsvTransaction::to_chargeback
to_chargeback(self) ==
    Ok(Transaction(self.client_id, self.transaction_id, ChargebackAction))

\* CsvTransaction::to_transaction
to_transaction(self) ==
    LET read ==
          CASE self.transaction_type = "deposit" -> to_deposit(self)
            [] self.transaction_type = "withdrawal" -> to_withdrawal(self)
            [] self.transaction_type = "dispute" -> to_dispute(self)
            [] self.transaction_type = "resolve" -> to_resolve(self)
            [] self.transaction_type = "chargeback" -> to_chargeback(self)
            [] OTHER -> Err("Unknown type")
    IN IF read.status = "Err"
       THEN [read EXCEPT !.description =
                <<"Failed to read transaction with ID", self.transaction_id>>]
       ELSE read

\* ---------------------------------------------------------------- process_csv
\* entry(key).or_insert(value) with the value forgotten: every record starts
\* its client on a new account.
or_insert_overwrites(map, key, value) == insert(map, key, value)

\* HashMap::entry(key).or_insert(value)
or_insert(map, key, value) ==
    IF contains_key(map, key) THEN map ELSE insert(map, key, value)

\* HashMap::into_values().collect(): the values, in any order.
into_values(map) ==
    {[i \in 1..Cardinality(DOMAIN map) |-> map[keys[i]]] :
        keys \in {k \in [1..Cardinality(DOMAIN map) -> DOMAIN map] :
                    \A i, j \in DOMAIN k : i # j => k[i] # k[j]}}

\* The loop body with a rejected transaction logged and skipped instead of
\* returned.
process_record_skips_rejected(accounts, record) ==
    LET csv_transaction == from_string_record(record) IN
    IF csv_transaction.status = "Err"
    THEN [client_accounts |-> accounts, transaction |-> None,
          result |-> csv_transaction]
    ELSE
    LET read == to_transaction(csv_transaction.value) IN
    IF read.status = "Err"
    THEN [client_accounts |-> accounts, transaction |-> None, result |-> read]
    ELSE
    LET transaction == read.value
        entries == or_insert(accounts, transaction.client_id,
                             ClientAccount_new(transaction.client_id))
        ret == apply_transaction(entries[transaction.client_id], transaction)
    IN [client_accounts |->
            [entries EXCEPT ![transaction.client_id] = ret.account],
        transaction |-> Some(transaction),
        result |-> IF ret.result.status = "Err" THEN OkUnit ELSE ret.result]

\* The body of the loop of process_csv for one record: the map it leaves, the
\* transaction the record gave (None when it gave none) and Ok, or the error
\* that `?` returns from process_csv.
process_record(accounts, record) ==
    LET csv_transaction == from_string_record(record) IN
    IF csv_transaction.status = "Err"
    THEN [client_accounts |-> accounts, transaction |-> None,
          result |-> csv_transaction]
    ELSE
    LET read == to_transaction(csv_transaction.value) IN
    IF read.status = "Err"
    THEN [client_accounts |-> accounts, transaction |-> None, result |-> read]
    ELSE
    LET transaction == read.value
        entries == or_insert(accounts, transaction.client_id,
                             ClientAccount_new(transaction.client_id))
        ret == apply_transaction(entries[transaction.client_id], transaction)
    IN [client_accounts |->
            [entries EXCEPT ![transaction.client_id] = ret.account],
        transaction |-> Some(transaction),
        result |-> ret.result]

\* reader.records() gives one more record and the loop body runs on it.
ProcessRecord ==
    /\ returned = None
    /\ records_read < MaxRecords
    /\ \E record \in StringRecords :
          LET step == process_record(client_accounts, record) IN
          /\ client_accounts' = step.client_accounts
          /\ clients_seen' =
                clients_seen \cup {step.transaction[i].client_id :
                                      i \in DOMAIN step.transaction}
          /\ returned' = IF step.result.status = "Ok" THEN None
                         ELSE Some(step.result)
    /\ records_read' = records_read + 1
    /\ UNCHANGED ledger

\* reader.records() is exhausted: process_csv returns the accounts.
Finish ==
    /\ returned = None
    /\ \E values \in into_values(client_accounts) :
          returned' = Some(Ok(values))
    /\ UNCHANGED <<client_accounts, clients_seen, records_read>>
    /\ UNCHANGED ledger

NextDriver == ProcessRecord \/ Finish

SpecDriver == Init /\ [][NextDriver]_vars

\* ---------------------------------------------------------------- disputes
DisputeOf(id) == Transaction(account.client_id, id, DisputeAction)
ResolveOf(id) == Transaction(account.client_id, id, ResolveAction)
ChargebackOf(id) == Transaction(account.client_id, id, ChargebackAction)

Transactions ==
    Deposits \cup Withdrawals
      \cup {DisputeOf(id) : id \in TransactionIds}
      \cup {ResolveOf(id) : id \in TransactionIds}
      \cup {ChargebackOf(id) : id \in TransactionIds}

\* Where a deposit id stands in its lifecycle.
Status(self, id) ==
    IF contains_key(self.applied_deposits, id) THEN "Applied"
    ELSE IF contains_key(self.disputed_deposits, id) THEN "Disputed"
    ELSE IF contains_key(self.chargedback_deposits, id) THEN "ChargedBack"
    ELSE "Absent"

\* The account on its own.  The value a call returns is no field of
\* ClientAccount: here every transaction is applied as above and only the
\* account (and whether the call unwound) is carried to the next call.
ApplyQuietly(transaction) ==
    /\ pc = "running"
    /\ LET ret == apply_transaction(account, transaction) IN
         /\ account' = ret.account
         /\ pc' = IF ret.result.status = "Panic" THEN "panicked" ELSE "running"
    /\ UNCHANGED <<result, history, driver>>

NextAccount == \E transaction \in Transactions : ApplyQuietly(transaction)

SpecAccount == Init /\ [][NextAccount]_vars

\* C11: on an unlocked account a Dispute of a deposit in applied_deposits
\* whose amount does not overflow held_balance succeeds: the entry moves to
\* disputed_deposits, available_balance decreases by the amount (below zero
\* when the funds are gone), held_balance increases by it, the rest stays.
C11_DisputeEffect ==
    Unlocked =>
      \A id \in DOMAIN account.applied_deposits :
         LET amount == account.applied_deposits[id] IN
         account.held_balance + amount <= DecimalMax =>
            apply_transaction(account, DisputeOf(id))
              = Ret([account EXCEPT
                       !.available_balance = account.available_balance - amount,
                       !.held_balance = account.held_balance + amount,
                       !.applied_deposits = remove(@, id),
                       !.disputed_deposits = insert(@, id, amount)],
                    OkUnit)

\* A deposit whose funds had been withdrawn is under dispute: the available
\* balance is negative and the call returned Ok.
C11_Witness ==
    /\ Unlocked
    /\ result = OkUnit
    /\ account.available_balance < 0
    /\ account.total_balance = 0
    /\ DOMAIN account.disputed_deposits # {}

\* C12: on an unlocked account a Dispute of a deposit in applied_deposits
\* fails with HeldBalanceOverflow exactly when held_balance + amount exceeds
\* the maximum, and then no field changes.
C12_HeldOverflowGuard ==
    Unlocked =>
      \A id \in DOMAIN account.applied_deposits :
         LET amount == account.applied_deposits[id]
             ret == apply_transaction(account, DisputeOf(id)) IN
         /\ ret.result = ErrorOf(DisputeOf(id), HeldBalanceOverflow)
              <=> account.held_balance + amount > DecimalMax
         /\ account.held_balance + amount > DecimalMax => ret.account = account

\* A Dispute was refused with HeldBalanceOverflow: the deposit is still in
\* applied_deposits and its amount does not fit on top of held_balance.
C12_Witness ==
    /\ Rejected(HeldBalanceOverflow)
    /\ contains_key(account.applied_deposits, RejectedId)
    /\ ~contains_key(account.disputed_deposits, RejectedId)
    /\ account.held_balance + account.applied_deposits[RejectedId] > DecimalMax

\* C13: on an unlocked account a Dispute of an id that is not in
\* applied_deposits, and a Resolve or Chargeback of an id that is not in
\* disputed_deposits, return Ok and change no field.
C13_MissingEntryNoOp ==
    Unlocked =>
      \A id \in TransactionIds :
         /\ ~contains_key(account.applied_deposits, id) =>
               apply_transaction(account, DisputeOf(id)) = Ret(account, OkUnit)
         /\ ~contains_key(account.disputed_deposits, id) =>
               /\ apply_transaction(account, ResolveOf(id)) = Ret(account, OkUnit)
               /\ apply_transaction(account, ChargebackOf(id)) = Ret(account, OkUnit)

\* An unlocked account with an applied deposit, a disputed deposit and an id
\* below the highwater mark that is in no map (a withdrawal or a dropped
\* deposit).
C13_Witness ==
    /\ Unlocked
    /\ result = OkUnit
    /\ DOMAIN account.applied_deposits # {}
    /\ DOMAIN account.disputed_deposits # {}
    /\ account.last_transaction_id # None
    /\ \E id \in TransactionIds :
          id <= account.last_transaction_id[1] /\ Status(account, id) = "Absent"

\* C14: on an unlocked account, a successful Dispute of a deposit in
\* applied_deposits followed by Resolve of the same id returns the account to
\* exactly the state before the Dispute.
C14_DisputeResolveRoundTrip ==
    Unlocked =>
      \A id \in DOMAIN account.applied_deposits :
         LET disputed == apply_transaction(account, DisputeOf(id))
             resolved == apply_transaction(disputed.account, ResolveOf(id)) IN
         disputed.result = OkUnit => resolved = Ret(account, OkUnit)

\* A deposit with a positive amount can be disputed while another deposit is
\* already held.
C14_Witness ==
    /\ Unlocked
    /\ account.held_balance > 0
    /\ \E id \in DOMAIN account.applied_deposits :
          /\ account.applied_deposits[id] > 0
          /\ apply_transaction(account, DisputeOf(id)).result = OkUnit
          /\ apply_transaction(account, DisputeOf(id)).account # account

\* C15: on an unlocked account a Chargeback of a deposit in
\* disputed_deposits moves the entry to chargedback_deposits, subtracts the
\* amount from held_balance and total_balance, leaves available_balance
\* alone and locks the account; every call after it fails with AccountLocked.
C15_ChargebackEffect ==
    Unlocked =>
      \A id \in DOMAIN account.disputed_deposits :
         LET amount == account.disputed_deposits[id]
             ret == apply_transaction(account, ChargebackOf(id)) IN
         /\ ret = Ret([account EXCEPT
                         !.held_balance = account.held_balance - amount,
                         !.total_balance = account.total_balance - amount,
                         !.disputed_deposits = remove(@, id),
                         !.chargedback_deposits = insert(@, id, amount),
                         !.locked = TRUE],
                      OkUnit)
         /\ \A t \in Transactions :
               apply_transaction(ret.account, t)
                 = Ret(ret.account, ErrorOf(t, AccountLocked))

\* After a chargeback of a positive amount a call was refused with
\* AccountLocked.
C15_Witness ==
    /\ account.locked
    /\ Rejected(AccountLocked)
    /\ \E id \in DOMAIN account.chargedback_deposits :
          account.chargedback_deposits[id] > 0

\* C16: the key sets of the three deposit maps are pairwise disjoint, and an
\* id in chargedback_deposits stays there and appears in neither other map.
C16_MapsDisjoint ==
    /\ [](/\ (DOMAIN account.applied_deposits)
                \cap (DOMAIN account.disputed_deposits) = {}
          /\ (DOMAIN account.applied_deposits)
                \cap (DOMAIN account.chargedback_deposits) = {}
          /\ (DOMAIN account.disputed_deposits)
                \cap (DOMAIN account.chargedback_deposits) = {})
    /\ [][\A id \in DOMAIN account.chargedback_deposits :
             /\ contains_key(account'.chargedback_deposits, id)
             /\ ~contains_key(account'.applied_deposits, id)
             /\ ~contains_key(account'.disputed_deposits, id)]_vars

\* All three maps hold an entry, and a call has been made since the
\* chargeback.
C16_Witness ==
    /\ DOMAIN account.applied_deposits # {}
    /\ DOMAIN account.disputed_deposits # {}
    /\ DOMAIN account.chargedback_deposits # {}
    /\ Rejected(AccountLocked)

\* C17: whatever call is made next, a deposit id only goes Absent -> Applied
\* (by a Deposit with that id, above the highwater mark, which becomes the new
\* mark), Applied -> Disputed (by its Dispute), Disputed -> Applied (by its
\* Resolve) or Disputed -> ChargedBack (by its Chargeback); no other id moves,
\* so Applied -> ChargedBack never happens and ChargedBack is never left.
C17_Lifecycle ==
    \A t \in Transactions :
       \A next \in {apply_transaction(account, t).account} :
          \/ /\ next.applied_deposits = account.applied_deposits
             /\ next.disputed_deposits = account.disputed_deposits
             /\ next.chargedback_deposits = account.chargedback_deposits
          \/ \A id \in TransactionIds :
                \/ Status(next, id) = Status(account, id)
                \/ /\ id = t.transaction_id
                   /\ CASE t.action.kind = "Deposit" ->
                              /\ Status(account, id) = "Absent"
                              /\ Status(next, id) = "Applied"
                              /\ InOrder(id)
                              /\ next.last_transaction_id = Some(id)
                        [] t.action.kind = "Dispute" ->
                              /\ Status(account, id) = "Applied"
                              /\ Status(next, id) = "Disputed"
                        [] t.action.kind = "Resolve" ->
                              /\ Status(account, id) = "Disputed"
                              /\ Status(next, id) = "Applied"
                        [] t.action.kind = "Chargeback" ->
                              /\ Status(account, id) = "Disputed"
                              /\ Status(next, id) = "ChargedBack"
                        [] OTHER -> FALSE

\* One deposit has gone through to ChargedBack while another is back in or
\* still in Applied and nothing is held.
C17_Witness ==
    /\ DOMAIN account.chargedback_deposits # {}
    /\ DOMAIN account.applied_deposits # {}
    /\ DOMAIN account.disputed_deposits = {}
    /\ account.available_balance > 0

\* C18: apply_transaction returns AccountLocked exactly when the account is
\* locked; on an unlocked account a Deposit fails only with BalanceOverflow,
\* a Withdrawal only with InsufficientFunds, a Dispute only with
\* HeldBalanceOverflow, and Resolve and Chargeback never fail.
C18_ErrorTaxonomy ==
    \A t \in Transactions :
       LET ret == apply_transaction(account, t)
           kind == t.action.kind IN
       /\ ret.result = ErrorOf(t, AccountLocked) <=> account.locked
       /\ Unlocked =>
            CASE kind = "Deposit" ->
                    ret.result \in {OkUnit, ErrorOf(t, BalanceOverflow)}
              [] kind = "Withdrawal" ->
                    ret.result \in {OkUnit, ErrorOf(t, InsufficientFunds)}
              [] kind = "Dispute" ->
                    ret.result \in {OkUnit, ErrorOf(t, HeldBalanceOverflow)}
              [] OTHER -> ret.result = OkUnit

\* A Withdrawal was refused on an unlocked account whose total is at the
\* maximum and held: a further Deposit would be refused with BalanceOverflow.
C18_Witness ==
    /\ Unlocked
    /\ Rejected(InsufficientFunds)
    /\ InOrder(RejectedId)
    /\ account.total_balance = DecimalMax
    /\ account.held_balance > 0

\* C20: Dispute, Resolve and Chargeback leave last_transaction_id as it was,
\* and what they do does not depend on it: with any other highwater mark the
\* call returns the same result and makes the same change.
C20_DisputesIgnoreHighwater ==
    \A id \in TransactionIds :
       \A t \in {DisputeOf(id), ResolveOf(id), ChargebackOf(id)} :
          \A ret \in {apply_transaction(account, t)} :
             /\ ret.account.last_transaction_id = account.last_transaction_id
             /\ \A last \in ({None} \cup {Some(i) : i \in TransactionIds})
                             \ {account.last_transaction_id} :
                   apply_transaction(
                       [account EXCEPT !.last_transaction_id = last], t)
                     = Ret([ret.account EXCEPT !.last_transaction_id = last],
                           ret.result)

\* A deposit below the highwater mark is under dispute.
C20_Witness ==
    /\ Unlocked
    /\ result = OkUnit
    /\ account.last_transaction_id # None
    /\ \E id \in DOMAIN account.disputed_deposits :
          /\ id < account.last_transaction_id[1]
          /\ account.disputed_deposits[id] > 0

\* ---------------------------------------------------------------- report
\* The error came from reading the record, not from the account.
ReadError(error) ==
    /\ error.status = "Err"
    /\ error.cause \in {"Failed to deserialize CSV transaction",
                        "Unknown type", "Amount is missing",
                        "Amount is negative or zero"}

\* The vector holds exactly one account for each of these clients, the one
\* the map holds, and nothing else.
OneAccountEach(report, clients) ==
    /\ Len(report) = Cardinality(clients)
    /\ \A client_id \in clients :
          /\ contains_key(client_accounts, client_id)
          /\ \E i \in DOMAIN report :
                /\ report[i].client_id = client_id
                /\ report[i] = client_accounts[client_id]

\* C19 as stated: whenever process_csv has returned from an input of
\* transactions, what it returned is a report with exactly one account for
\* every client id that appeared, locked accounts included (their later
\* transactions were merely rejected).
C19_FinalReport ==
    (returned # None /\ ~ReadError(returned[1])) =>
        /\ returned[1].status = "Ok"
        /\ OneAccountEach(returned[1].value, clients_seen)

\* C19, amended: the map holds exactly the clients seen so far, each under
\* its own id; a record that gives a transaction creates the account of a
\* client not yet in the map as a new one (zero balances, unlocked) and
\* applies the transaction to it, applies it to the existing account
\* otherwise, and leaves every other account as it is, so no account is ever
\* removed or reset; a transaction addressed to a locked account is rejected
\* with AccountLocked, which ends the run with that error; and when
\* process_csv returns Ok, the report holds exactly one account for every
\* client seen, as the map holds it.
C19_ReportOnSuccess ==
    /\ DOMAIN client_accounts = clients_seen
    /\ \A client_id \in DOMAIN client_accounts :
          client_accounts[client_id].client_id = client_id
    /\ (returned # None /\ returned[1].status = "Ok") =>
          OneAccountEach(returned[1].value, clients_seen)
    /\ returned = None =>
          \A record \in StringRecords :
             \A step \in {process_record(client_accounts, record)} :
                /\ step.transaction = None =>
                      step.client_accounts = client_accounts
                /\ \A i \in DOMAIN step.transaction :
                      \A t \in {step.transaction[i]} :
                         /\ DOMAIN step.client_accounts
                              = DOMAIN client_accounts \cup {t.client_id}
                         /\ \A other \in DOMAIN client_accounts \ {t.client_id} :
                               step.client_accounts[other] = client_accounts[other]
                         /\ \A before \in
                               {IF contains_key(client_accounts, t.client_id)
                                THEN client_accounts[t.client_id]
                                ELSE ClientAccount_new(t.client_id)} :
                               /\ step.client_accounts[t.client_id]
                                    = apply_transaction(before, t).account
                               /\ step.result = apply_transaction(before, t).result
                               /\ before.locked =>
                                     step.result = ErrorOf(t, AccountLocked)

\* process_csv returned a report of two accounts, one of them locked by a
\* chargeback.
C19_Witness ==
    /\ returned # None
    /\ returned[1].status = "Ok"
    /\ Len(returned[1].value) = 2
    /\ \E i \in DOMAIN returned[1].value :
          /\ returned[1].value[i].locked
          /\ DOMAIN returned[1].value[i].chargedback_deposits # {}

\* ---------------------------------------------------------------- balances
\* The sum of the amounts a deposit map holds.
RECURSIVE SumOfAmounts(_)
SumOfAmounts(map) ==
    IF DOMAIN map = {} THEN 0
    ELSE LET key == CHOOSE k \in DOMAIN map : TRUE IN
         map[key] + SumOfAmounts(remove(map, key))

\* C21: in every reachable state total_balance >= available_balance and
\* held_balance >= 0, so whenever an in-order Deposit passes the overflow
\* check on the total, the unchecked addition to available_balance stays in
\* range.
C21_TotalBoundsAvailable ==
    /\ account.total_balance >= account.available_balance
    /\ account.held_balance >= 0
    /\ \A t \in Deposits :
          (/\ InOrder(t.transaction_id)
           /\ checked_add(account.total_balance, t.action.amount) # None)
             => InRange(account.available_balance + t.action.amount)

\* Part of the total is held, and a Deposit that fills the total up to the
\* maximum would pass the check.
C21_Witness ==
    /\ Unlocked
    /\ account.held_balance > 0
    /\ account.available_balance >= 0
    /\ account.total_balance < DecimalMax
    /\ \E id \in TransactionIds : InOrder(id)

\* C22: no call ever unwinds: the three balances stay within
\* [-DecimalMax, DecimalMax] in every reachable state, and from every
\* reachable state every transaction (amount 0 included) returns Ok or an
\* error, with the account it leaves in range again; overflow shows only as
\* BalanceOverflow or HeldBalanceOverflow.
C22_ArithmeticSafety ==
    /\ pc = "running"
    /\ result.status \in {"Ok", "Err"}
    /\ InRange(account.available_balance)
    /\ InRange(account.held_balance)
    /\ InRange(account.total_balance)
    /\ \A t \in Transactions :
          \A ret \in {apply_transaction(account, t)} :
             /\ ret.result.status \in {"Ok", "Err"}
             /\ InRange(ret.account.available_balance)
             /\ InRange(ret.account.held_balance)
             /\ InRange(ret.account.total_balance)

\* The available balance is at the lower limit and the held balance at the
\* upper limit: the whole of a maximal deposit was withdrawn and then
\* disputed.
C22_Witness ==
    /\ account.available_balance = -DecimalMax
    /\ account.held_balance = DecimalMax
    /\ pc = "running"

\* C23: in every reachable state held_balance is the sum of the amounts in
\* disputed_deposits, also on a locked account.
C23_HeldIsSumOfDisputed ==
    account.held_balance = SumOfAmounts(account.disputed_deposits)

\* A chargeback has locked the account while another deposit of a positive
\* amount is still under dispute.
C23_Witness ==
    /\ account.locked
    /\ account.held_balance > 0
    /\ DOMAIN account.chargedback_deposits # {}
    /\ \E id \in DOMAIN account.disputed_deposits :
          account.disputed_deposits[id] > 0

\* C26: on an unlocked account total_balance >= 0, so available_balance is
\* negative only while held_balance > 0; total_balance is negative only on
\* an account that a chargeback has locked.
C26_TotalNonNegativeWhileUnlocked ==
    /\ Unlocked =>
          /\ account.total_balance >= 0
          /\ account.available_balance < 0 => account.held_balance > 0
    /\ account.total_balance < 0 =>
          /\ account.locked
          /\ DOMAIN account.chargedback_deposits # {}

\* A deposit whose funds had been withdrawn was charged back: total and
\* available are both negative and the account is locked.
C26_Witness ==
    /\ account.locked
    /\ account.total_balance < 0
    /\ account.available_balance < 0
    /\ account.held_balance = 0

\* ---------------------------------------------------------------- highwater
\* C24: whatever call is made next, last_transaction_id changes only when
\* the call is a Deposit or Withdrawal that is in order and returns Ok, and
\* then it becomes that transaction's id, above the old mark; such a call
\* always moves it; a rejected or dropped call leaves it; every stored
\* deposit id is at or below the mark, so an in-order Deposit never inserts
\* over an existing entry.
C24_Highwater ==
    /\ \A id \in StoredIds(account) :
          /\ account.last_transaction_id # None
          /\ id <= account.last_transaction_id[1]
    /\ \A t \in Transactions :
          \A ret \in {apply_transaction(account, t)} :
             \A moved \in {ret.account.last_transaction_id
                             # account.last_transaction_id} :
                /\ moved =>
                      /\ t.action.kind \in {"Deposit", "Withdrawal"}
                      /\ InOrder(t.transaction_id)
                      /\ ret.result = OkUnit
                      /\ ret.account.last_transaction_id = Some(t.transaction_id)
                      /\ account.last_transaction_id # None =>
                            account.last_transaction_id[1] < t.transaction_id
                /\ (/\ t.action.kind \in {"Deposit", "Withdrawal"}
                    /\ InOrder(t.transaction_id)
                    /\ ret.result = OkUnit) => moved
                /\ (t.action.kind = "Deposit" /\ moved) =>
                      t.transaction_id \notin StoredIds(account)

\* A deposit is stored and a later Withdrawal has moved the mark above it;
\* a Deposit above the mark is now rejected with BalanceOverflow and leaves
\* the mark where it is.
C24_Witness ==
    /\ account.last_transaction_id # None
    /\ StoredIds(account) # {}
    /\ account.last_transaction_id[1] \notin StoredIds(account)
    /\ \E t \in Deposits :
          /\ InOrder(t.transaction_id)
          /\ apply_transaction(account, t).result.status = "Err"
          /\ apply_transaction(account, t).result.cause = BalanceOverflow
          /\ apply_transaction(account, t).account.last_transaction_id
                = account.last_transaction_id

\* ---------------------------------------------------------------- records
\* Every deposit the three maps store, id |-> amount.
StoredDeposits(self) ==
    [id \in StoredIds(self) |->
        IF contains_key(self.applied_deposits, id)
        THEN self.applied_deposits[id]
        ELSE IF contains_key(self.disputed_deposits, id)
        THEN self.disputed_deposits[id]
        ELSE self.chargedback_deposits[id]]

\* C25: in every reachable state the three maps together store exactly the
\* Deposits that were applied, each once and with the amount it was
\* deposited with; Dispute, Resolve and Chargeback keep that record as it is;
\* and a Dispute of an id whose Deposit was dropped or rejected changes
\* nothing.
C25_DepositRecordConservation ==
    /\ StoredDeposits(account) = deposited
    /\ Cardinality(DOMAIN account.applied_deposits)
         + Cardinality(DOMAIN account.disputed_deposits)
         + Cardinality(DOMAIN account.chargedback_deposits)
         = Cardinality(DOMAIN deposited)
    /\ \A id \in TransactionIds :
          /\ \A t \in {DisputeOf(id), ResolveOf(id), ChargebackOf(id)} :
                StoredDeposits(apply_transaction(account, t).account)
                  = deposited
          /\ ~contains_key(deposited, id) =>
                apply_transaction(account, DisputeOf(id)).account = account

\* Two Deposits were applied, one is charged back and one is applied, and a
\* transaction id below the mark belongs to no applied Deposit.
C25_Witness ==
    /\ Cardinality(DOMAIN deposited) = 2
    /\ DOMAIN account.chargedback_deposits # {}
    /\ DOMAIN account.applied_deposits # {}
    /\ \E id \in TransactionIds :
          /\ ~contains_key(deposited, id)
          /\ ~InOrder(id)

\* ---------------------------------------------------------------- lock
\* C27: locked is true exactly when chargedback_deposits is non-empty, which
\* then holds one entry; and once the account is locked, disputed_deposits,
\* chargedback_deposits and held_balance never change again.
C27_LockedIffChargedBack ==
    /\ [](/\ account.locked <=> DOMAIN account.chargedback_deposits # {}
          /\ Cardinality(DOMAIN account.chargedback_deposits) <= 1)
    /\ [][account.locked =>
             /\ account'.locked
             /\ account'.disputed_deposits = account.disputed_deposits
             /\ account'.chargedback_deposits = account.chargedback_deposits
             /\ account'.held_balance = account.held_balance]_vars

\* On a locked account the Chargeback of a second deposit that is still
\* under dispute was refused.
C27_Witness ==
    /\ account.locked
    /\ Rejected(AccountLocked)
    /\ RejectedKind("Chargeback")
    /\ contains_key(account.disputed_deposits, RejectedId)
    /\ account.held_balance > 0

\* ---------------------------------------------------------------- abort
\* C28: process_csv takes a step only while it has not returned. A step
\* either ends the input, returning Ok with the map untouched, or takes the
\* next record: a record that gives no transaction returns its error; a
\* record that gives one has it applied to the account of its client (a new
\* one on first sight) and to no other, and when apply_transaction returns
\* an error the run returns that error at once, so nothing is applied after
\* it and no accounts are returned.
C28_DriverAbort ==
    [][/\ returned = None
       /\ \/ /\ records_read' = records_read
             /\ client_accounts' = client_accounts
             /\ returned' # None
             /\ returned'[1].status = "Ok"
          \/ /\ records_read' = records_read + 1
             /\ \E record \in StringRecords :
                   \A csv_transaction \in {from_string_record(record)} :
                      IF csv_transaction.status = "Err"
                      THEN /\ returned' = Some(csv_transaction)
                           /\ client_accounts' = client_accounts
                      ELSE
                      \A read \in {to_transaction(csv_transaction.value)} :
                         IF read.status = "Err"
                         THEN /\ returned' = Some(read)
                              /\ client_accounts' = client_accounts
                         ELSE
                         \A ret \in {apply_transaction(
                                        IF contains_key(client_accounts,
                                                        read.value.client_id)
                                        THEN client_accounts[read.value.client_id]
                                        ELSE ClientAccount_new(read.value.client_id),
                                        read.value)} :
                            /\ client_accounts' =
                                  insert(client_accounts, read.value.client_id,
                                         ret.account)
                            /\ returned' = IF ret.result.status = "Ok"
                                           THEN None
                                           ELSE Some(ret.result)]_vars

\* The run ended with AccountLocked on the fourth record, addressed to an
\* account that a chargeback had locked.
C28_Witness ==
    /\ returned # None
    /\ returned[1].status = "Err"
    /\ returned[1].cause = AccountLocked
    /\ records_read = MaxRecords
    /\ \E client_id \in DOMAIN client_accounts :
          client_accounts[client_id].locked

====
